---- MODULE Spec2Model ----
(***************************************************************************)
(* The lobby crate of sync-player: the Room entity (domain.rs), the room   *)
(* orchestrations (app.rs), the in-memory room repository and the          *)
(* MessageSenderActor / MessageSenderProxy pair (infrastructure.rs).       *)
(* Every await point of the source is a separate step, so that concurrent  *)
(* callers interleave exactly where the tokio tasks can.                   *)
(***************************************************************************)
EXTENDS Integers, Sequences, FiniteSets, TLC

\* ------------------------------------------------------------------ bounds
MaxCapacity == 2      \* largest capacity passed to open_room
MaxRooms == 1         \* number of rooms ever opened (fresh Uuid each)
MaxConns == 2         \* number of websocket sinks ever registered
QueueSize == 1        \* mpsc::channel(size); setup passes 100

Participants == {"A", "B"}
Names == {"x"}
Payloads == {"m", "bad"}          \* "bad" does not serialize
Callers == {1, 2}                 \* two concurrently running tasks
Dispatchers == {1}                \* SpecMsg: the task that dispatches
Connectors == {2}                 \* SpecMsg: the task that (un)registers
RoomIds == 1..MaxRooms
Handles == 1..MaxConns
NoOne == "-"

VARIABLES
    repoMap,      \* InMemoryRoomRepo.map : RoomId -> Room (present keys only)
    nextRoom,     \* number of Uuid::new_v4 room ids handed out
    actorMap,     \* MessageSenderActor.map : Participant -> sink
    queue,        \* the mpsc channel between proxies and the actor
    actorState,   \* "Idle" | "Processing" | "Stopped" (process() returned)
    actorCur,     \* the command bound by `while let Some(command)`
    proxyAlive,   \* some MessageSenderProxy (Sender clone) still exists
    nextConn,     \* number of sinks created so far
    gone,         \* sinks whose peer is gone: a write to them fails
    pc,           \* per caller: the await point it is suspended at
    room_id,      \* per caller: room_id argument of the running call
    room,         \* per caller: the Room value loaded from the repository
    responses,    \* per caller: Vec<(Participant, Out)> of handle_message
    idx,          \* per caller: position of the for loop in responses
    attempts,     \* per caller: calls of msg_sender.send made by the call
    reply,        \* per caller: state of its oneshot reply channel
    ret,          \* the value the step just taken returned to its caller
    sock          \* per caller: the handle_socket invocation it runs, if any

vars == <<repoMap, nextRoom, actorMap, queue, actorState, actorCur,
          proxyAlive, nextConn, gone, pc, room_id, room, responses, idx,
          attempts, reply, ret, sock>>

repoVars == <<repoMap, nextRoom>>
actorVars == <<actorMap, queue, actorState, actorCur, reply>>
connVars == <<nextConn, gone>>
localVars == <<room_id, room, responses, idx, attempts>>

\* ------------------------------------------------------------ domain.rs
\* Room::new that makes the creator the first participant
Room_joined(id, name, capacity, participant) ==
    [id |-> id, name |-> name, participants |-> <<participant>>,
     capacity |-> capacity, created_by |-> participant]

Room(id, name, capacity, participant) ==
    [id |-> id, name |-> name, participants |-> <<>>,
     capacity |-> capacity, created_by |-> participant]

NoRoom == [id |-> 0, name |-> "", participants |-> <<>>,
           capacity |-> 0, created_by |-> NoOne]

\* is_full with the comparison off by one
is_full_late(r) == Len(r.participants) > r.capacity

is_full(r) == Len(r.participants) >= r.capacity

is_participant(r, p) == \E i \in 1..Len(r.participants) : r.participants[i] = p

join(r, p) == [r EXCEPT !.participants = Append(@, p)]

RECURSIVE retain(_, _)
retain(s, p) ==
    IF s = <<>> THEN <<>>
    ELSE IF Head(s) # p THEN <<Head(s)>> \o retain(Tail(s), p)
    ELSE retain(Tail(s), p)

\* leave that retains every participant
leave_keep(r, p) == r

leave(r, p) == [r EXCEPT !.participants = retain(@, p)]

\* close without the ownership check
close_anyone(r, p) == TRUE

close(r, p) == r.created_by = p

\* results of the app.rs functions (RoomAppError and Ok)
Res(tag, p) == [tag |-> tag, participant |-> p]
Ok == Res("Ok", NoOne)
NoResult == Res("none", NoOne)

\* MessageResponse, plus the interpreter's own failure
Decisions ==
    [kind : {"Unicast"}, to : Participants, msg : Payloads]
    \cup [kind : {"Broadcast"}, to : {NoOne}, msg : Payloads]
    \cup [kind : {"Void", "Err"}, to : {NoOne}, msg : {"m"}]

RECURSIVE fanout(_, _)
fanout(ps, msg) ==
    IF ps = <<>> THEN <<>>
    ELSE <<[to |-> Head(ps), msg |-> msg]>> \o fanout(Tail(ps), msg)

\* Room::handle_message without the guard on the Unicast target
dispatch_result_unguarded(r, from, d) ==
    IF ~is_participant(r, from) THEN Res("NotParticipant", from)
    ELSE IF d.kind = "Err" THEN Res("MessageHandlerError", NoOne)
    ELSE Ok

\* Room::handle_message: the error it returns, or Ok
dispatch_result(r, from, d) ==
    IF ~is_participant(r, from) THEN Res("NotParticipant", from)
    ELSE IF d.kind = "Err" THEN Res("MessageHandlerError", NoOne)
    ELSE IF d.kind = "Unicast" /\ ~is_participant(r, d.to)
         THEN Res("NotParticipant", d.to)
    ELSE Ok

\* Room::handle_message: the deliveries it returns when it succeeds
dispatch(r, d) ==
    IF d.kind = "Unicast" THEN <<[to |-> d.to, msg |-> d.msg]>>
    ELSE IF d.kind = "Broadcast" THEN fanout(r.participants, d.msg)
    ELSE <<>>

\* ---------------------------------------------------- infrastructure.rs
Command(kind, p, ws, m, c) ==
    [kind |-> kind, participant |-> p, ws_sender |-> ws, message |-> m,
     result_sender |-> c]
NoCommand == Command("none", NoOne, 0, "-", 0)

Reply(tag, p) == [tag |-> tag, participant |-> p]
NoReply == Reply("none", NoOne)
Dropped == Reply("Dropped", NoOne)

to_string_ok(m) == m # "bad"

\* an insert that keeps the value a key already has
insert_keep(m, k, v) ==
    [x \in DOMAIN m \cup {k} |-> IF x \in DOMAIN m THEN m[x] ELSE v]

insert(m, k, v) == [x \in DOMAIN m \cup {k} |-> IF x = k THEN v ELSE m[x]]
remove(m, k) == [x \in DOMAIN m \ {k} |-> m[x]]
EmptyMap == [x \in {} |-> 0]

\* the sinks a map owns
sinks(m) == {m[p] : p \in DOMAIN m}

RECURSIVE senders(_)
senders(q) == IF q = <<>> THEN {} ELSE {Head(q).result_sender} \cup senders(Tail(q))

\* ---------------------------------------------------------------- api.rs
\* one invocation of handle_socket: where it stands, its arguments, the
\* sink it split off its socket and the frame that ended its loop
Sock(state, rid, participant, sender, frame) ==
    [state |-> state, room_id |-> rid, participant |-> participant,
     sender |-> sender, frame |-> frame]
NoSock == Sock("none", 0, NoOne, 0, "-")

Init ==
    /\ repoMap = EmptyMap
    /\ nextRoom = 0
    /\ actorMap = EmptyMap
    /\ queue = <<>>
    /\ actorState = "Idle"
    /\ actorCur = NoCommand
    /\ proxyAlive = TRUE
    /\ nextConn = 0
    /\ gone = {}
    /\ pc = [c \in Callers |-> "idle"]
    /\ room_id = [c \in Callers |-> 0]
    /\ room = [c \in Callers |-> NoRoom]
    /\ responses = [c \in Callers |-> <<>>]
    /\ idx = [c \in Callers |-> 0]
    /\ attempts = [c \in Callers |-> <<>>]
    /\ reply = [c \in Callers |-> NoReply]
    /\ ret = NoResult
    /\ sock = [c \in Callers |-> NoSock]

\* a caller may start a call: it is between calls and the server is up
CanCall(c) == pc[c] = "idle" /\ proxyAlive

\* the call of caller c returns r; its locals go out of scope
Return(c, r) ==
    /\ pc' = [pc EXCEPT ![c] = "idle"]
    /\ ret' = r
    /\ room_id' = [room_id EXCEPT ![c] = 0]
    /\ room' = [room EXCEPT ![c] = NoRoom]
    /\ responses' = [responses EXCEPT ![c] = <<>>]
    /\ idx' = [idx EXCEPT ![c] = 0]
    /\ attempts' = [attempts EXCEPT ![c] = <<>>]

\* ---------------------------------------------------------------- app.rs
open_room(c, name, capacity, participant) ==
    /\ CanCall(c)
    /\ nextRoom < MaxRooms
    /\ nextRoom' = nextRoom + 1
    /\ repoMap' = insert(repoMap, nextRoom + 1,
                         Room(nextRoom + 1, name, capacity, participant))
    /\ Return(c, Ok)
    /\ UNCHANGED <<actorVars, connVars, proxyAlive>>

\* close_room up to the await of delete
close_room(c, rid, participant) ==
    /\ CanCall(c)
    /\ IF rid \notin DOMAIN repoMap THEN Return(c, Res("RoomNotFound", NoOne))
       ELSE IF ~close(repoMap[rid], participant)
            THEN Return(c, Res("NotOwner", participant))
       ELSE /\ pc' = [pc EXCEPT ![c] = "close_delete"]
            /\ room_id' = [room_id EXCEPT ![c] = rid]
            /\ UNCHANGED <<room, responses, idx, attempts>>
            /\ ret' = NoResult
    /\ UNCHANGED <<repoVars, actorVars, connVars, proxyAlive>>

close_room_delete(c) ==
    /\ pc[c] = "close_delete"
    /\ repoMap' = remove(repoMap, room_id[c])
    /\ Return(c, Ok)
    /\ UNCHANGED <<nextRoom, actorVars, connVars, proxyAlive>>

\* join_room up to the await of save
join_room(c, rid, participant) ==
    /\ CanCall(c)
    /\ IF rid \notin DOMAIN repoMap THEN Return(c, Res("RoomNotFound", NoOne))
       ELSE IF is_full(repoMap[rid]) THEN Return(c, Res("RoomFull", NoOne))
       ELSE /\ pc' = [pc EXCEPT ![c] = "join_save"]
            /\ room_id' = [room_id EXCEPT ![c] = rid]
            /\ room' = [room EXCEPT ![c] = join(repoMap[rid], participant)]
            /\ UNCHANGED <<responses, idx, attempts>>
            /\ ret' = NoResult
    /\ UNCHANGED <<repoVars, actorVars, connVars, proxyAlive>>

join_room_save(c) ==
    /\ pc[c] = "join_save"
    /\ repoMap' = insert(repoMap, room[c].id, room[c])
    /\ Return(c, Ok)
    /\ UNCHANGED <<nextRoom, actorVars, connVars, proxyAlive>>

\* what leave_room returns
leave_room_result(rid) ==
    IF rid \notin DOMAIN repoMap THEN Res("RoomNotFound", NoOne) ELSE Ok

\* the repository leave_room leaves behind: Room::leave is applied to the
\* clone that get returned, and the clone is dropped at the return
leave_room_repo(rid, participant) == repoMap

leave_room(c, rid, participant) ==
    /\ CanCall(c)
    /\ repoMap' = leave_room_repo(rid, participant)
    /\ Return(c, leave_room_result(rid))
    /\ UNCHANGED <<nextRoom, actorVars, connVars, proxyAlive>>

\* handle_message up to the first send: get, Room::handle_message
handle_message(c, rid, participant, d) ==
    /\ CanCall(c)
    /\ IF rid \notin DOMAIN repoMap THEN Return(c, Res("RoomNotFound", NoOne))
       ELSE IF dispatch_result(repoMap[rid], participant, d) # Ok
            THEN Return(c, dispatch_result(repoMap[rid], participant, d))
       ELSE IF dispatch(repoMap[rid], d) = <<>> THEN Return(c, Ok)
       ELSE /\ pc' = [pc EXCEPT ![c] = "hm_send"]
            /\ room_id' = [room_id EXCEPT ![c] = rid]
            /\ room' = [room EXCEPT ![c] = repoMap[rid]]
            /\ responses' = [responses EXCEPT ![c] = dispatch(repoMap[rid], d)]
            /\ idx' = [idx EXCEPT ![c] = 1]
            /\ UNCHANGED attempts
            /\ ret' = NoResult
    /\ UNCHANGED <<repoVars, actorVars, connVars, proxyAlive>>

\* MessageSenderProxy::send, the enqueue: suspended while the queue is full,
\* an error once the receiver is gone
hm_send(c) ==
    /\ pc[c] = "hm_send"
    /\ IF actorState = "Stopped"
       THEN /\ Return(c, Res("MessageSenderError", NoOne))
            /\ UNCHANGED actorVars
       ELSE /\ Len(queue) < QueueSize
            /\ queue' = Append(queue, Command("SendMessage",
                            responses[c][idx[c]].to, 0,
                            responses[c][idx[c]].msg, c))
            /\ attempts' = [attempts EXCEPT ![c] = Append(@, responses[c][idx[c]])]
            /\ pc' = [pc EXCEPT ![c] = "hm_wait"]
            /\ UNCHANGED <<actorMap, actorState, actorCur, reply, room_id,
                           room, responses, idx>>
            /\ ret' = NoResult
    /\ UNCHANGED <<repoVars, connVars, proxyAlive>>

\* the enqueue finds the queue full: the future of Sender::send is pending
\* and the caller stays suspended in it
hm_full(c) ==
    /\ pc[c] = "hm_send"
    /\ actorState # "Stopped"
    /\ Len(queue) >= QueueSize
    /\ pc' = [pc EXCEPT ![c] = "hm_full"]
    /\ ret' = NoResult
    /\ UNCHANGED <<repoVars, actorVars, connVars, proxyAlive, localVars>>

\* the suspended caller is woken: by a free slot, which takes its command,
\* or by the receiver being dropped, which fails its send
hm_resume(c) ==
    /\ pc[c] = "hm_full"
    /\ IF actorState = "Stopped"
       THEN /\ Return(c, Res("MessageSenderError", NoOne))
            /\ UNCHANGED actorVars
       ELSE /\ Len(queue) < QueueSize
            /\ queue' = Append(queue, Command("SendMessage",
                            responses[c][idx[c]].to, 0,
                            responses[c][idx[c]].msg, c))
            /\ attempts' = [attempts EXCEPT ![c] = Append(@, responses[c][idx[c]])]
            /\ pc' = [pc EXCEPT ![c] = "hm_wait"]
            /\ UNCHANGED <<actorMap, actorState, actorCur, reply, room_id,
                           room, responses, idx>>
            /\ ret' = NoResult
    /\ UNCHANGED <<repoVars, connVars, proxyAlive>>

\* the for loop of handle_message moves to its next delivery, or is done
hm_next(c) ==
    IF idx[c] < Len(responses[c])
    THEN /\ idx' = [idx EXCEPT ![c] = @ + 1]
         /\ pc' = [pc EXCEPT ![c] = "hm_send"]
         /\ UNCHANGED <<room_id, room, responses, attempts>>
         /\ ret' = NoResult
    ELSE Return(c, Ok)

\* the match on the reply with the MessageSenderError arm going on with the
\* next delivery
hm_recv_continue(c) ==
    /\ pc[c] = "hm_wait"
    /\ reply[c] # NoReply
    /\ IF reply[c].tag \in {"Ok", "MessageSenderError"}
       THEN hm_next(c) /\ reply' = [reply EXCEPT ![c] = NoReply]
       ELSE IF reply[c].tag = "ParticipantDisconnected"
       THEN /\ pc' = [pc EXCEPT ![c] = "hm_leave"]
            /\ UNCHANGED <<reply, room_id, room, responses, idx, attempts>>
            /\ ret' = NoResult
       ELSE /\ Return(c, Res("Panic", NoOne))
            /\ reply' = [reply EXCEPT ![c] = NoReply]
    /\ UNCHANGED <<repoVars, actorMap, queue, actorState, actorCur, connVars,
                   proxyAlive>>

\* MessageSenderProxy::send, the reply, and the match on it
hm_recv(c) ==
    /\ pc[c] = "hm_wait"
    /\ reply[c] # NoReply
    /\ IF reply[c].tag = "Ok"
       THEN hm_next(c) /\ reply' = [reply EXCEPT ![c] = NoReply]
       ELSE IF reply[c].tag = "ParticipantDisconnected"
       THEN /\ pc' = [pc EXCEPT ![c] = "hm_leave"]
            /\ UNCHANGED <<reply, room_id, room, responses, idx, attempts>>
            /\ ret' = NoResult
       ELSE IF reply[c].tag = "MessageSenderError"
       THEN /\ Return(c, Res("MessageSenderError", NoOne))
            /\ reply' = [reply EXCEPT ![c] = NoReply]
       ELSE /\ Return(c, Res("Panic", NoOne))
            /\ reply' = [reply EXCEPT ![c] = NoReply]
    /\ UNCHANGED <<repoVars, actorMap, queue, actorState, actorCur, connVars,
                   proxyAlive>>

\* the leave_room of the ParticipantDisconnected arm, `?` on its error
hm_leave(c) ==
    /\ pc[c] = "hm_leave"
    /\ repoMap' = leave_room_repo(room_id[c], reply[c].participant)
    /\ reply' = [reply EXCEPT ![c] = NoReply]
    /\ IF leave_room_result(room_id[c]) = Ok THEN hm_next(c)
       ELSE Return(c, leave_room_result(room_id[c]))
    /\ UNCHANGED <<nextRoom, actorMap, queue, actorState, actorCur, connVars,
                   proxyAlive>>

\* ------------------------------------------------- MessageSenderProxy
\* the enqueue of a proxy method: Err when the receiver is gone, suspended
\* while the queue is full
proxy_enqueue(c, cmd, err) ==
    IF actorState = "Stopped"
    THEN Return(c, err) /\ UNCHANGED actorVars
    ELSE /\ Len(queue) < QueueSize
         /\ queue' = Append(queue, cmd)
         /\ pc' = [pc EXCEPT ![c] = "proxy_wait"]
         /\ UNCHANGED <<actorMap, actorState, actorCur, reply, room_id, room,
                        responses, idx, attempts>>
         /\ ret' = NoResult

register(c, participant) ==
    /\ CanCall(c)
    /\ nextConn < MaxConns
    /\ nextConn' = nextConn + 1
    /\ proxy_enqueue(c, Command("RegisterParticipant", participant,
                                nextConn + 1, "-", c), Res("SendError", NoOne))
    /\ UNCHANGED <<repoVars, gone, proxyAlive>>

\* an unregister that removes the mapping itself, bypassing the actor
unregister_direct(c, participant) ==
    /\ CanCall(c)
    /\ actorMap' = remove(actorMap, participant)
    /\ Return(c, Ok)
    /\ UNCHANGED <<repoVars, queue, actorState, actorCur, reply, connVars,
                   proxyAlive>>

unregister(c, participant) ==
    /\ CanCall(c)
    /\ proxy_enqueue(c, Command("UnregisterParticipant", participant,
                                0, "-", c), Res("SendError", NoOne))
    /\ UNCHANGED <<repoVars, connVars, proxyAlive>>

\* MessageSender::send called on the proxy by itself
send(c, participant, message) ==
    /\ CanCall(c)
    /\ proxy_enqueue(c, Command("SendMessage", participant, 0, message, c),
                     Res("MessageSenderError", NoOne))
    /\ UNCHANGED <<repoVars, connVars, proxyAlive>>

\* what a proxy method returns for the reply it received
proxy_result(r) ==
    IF r = Dropped THEN Res("Panic", NoOne)
    ELSE IF r.tag = "Ok" THEN Ok
    ELSE Res(r.tag, r.participant)

\* result_receiver.await.unwrap_or_else(panic) of a proxy method
proxy_recv(c) ==
    /\ pc[c] = "proxy_wait"
    /\ reply[c] # NoReply
    /\ Return(c, proxy_result(reply[c]))
    /\ reply' = [reply EXCEPT ![c] = NoReply]
    /\ UNCHANGED <<repoVars, actorMap, queue, actorState, actorCur, connVars,
                   proxyAlive>>

\* ------------------------------------------------- MessageSenderActor
\* self.receiver.recv() yields a command
actor_recv ==
    /\ actorState = "Idle"
    /\ queue # <<>>
    /\ actorCur' = Head(queue)
    /\ queue' = Tail(queue)
    /\ actorState' = "Processing"
    /\ UNCHANGED <<repoVars, actorMap, reply, connVars, proxyAlive, pc,
                   localVars>>
    /\ ret' = NoResult

\* self.receiver.recv() yields None: every Sender is dropped, queue drained
actor_closed ==
    /\ actorState = "Idle"
    /\ queue = <<>>
    /\ ~proxyAlive
    /\ actorState' = "Stopped"
    /\ actorMap' = EmptyMap
    /\ gone' = {}
    /\ UNCHANGED <<repoVars, queue, actorCur, reply, nextConn, proxyAlive,
                   pc, localVars>>
    /\ ret' = NoResult

\* process() returns from inside the loop: self is dropped, and with it the
\* map and the receiver, whose queued commands lose their result_sender
actor_return(r) ==
    /\ actorState' = "Stopped"
    /\ actorCur' = NoCommand
    /\ actorMap' = EmptyMap
    /\ gone' = {}
    /\ queue' = <<>>
    /\ reply' = [c \in Callers |->
                    IF c = actorCur.result_sender THEN r
                    ELSE IF c \in senders(queue) THEN Dropped
                    ELSE reply[c]]

\* the loop goes round: the command is answered; a sink that left the map
\* is dropped
actor_continue(m, r) ==
    /\ actorState' = "Idle"
    /\ actorCur' = NoCommand
    /\ actorMap' = m
    /\ gone' = gone \cap sinks(m)
    /\ reply' = [reply EXCEPT ![actorCur.result_sender] = r]
    /\ UNCHANGED queue

\* the SendMessage arm that keeps the mapping of a disconnected participant
actor_send_keep ==
    IF actorCur.participant \notin DOMAIN actorMap
    THEN actor_return(Reply("MessageSenderError", NoOne))
    ELSE IF ~to_string_ok(actorCur.message)
    THEN actor_return(Reply("MessageSenderError", NoOne))
    ELSE IF actorMap[actorCur.participant] \in gone
    THEN actor_continue(actorMap,
                        Reply("ParticipantDisconnected", actorCur.participant))
    ELSE actor_continue(actorMap, Reply("Ok", NoOne))

\* the SendMessage arm
actor_send ==
    IF actorCur.participant \notin DOMAIN actorMap
    THEN actor_return(Reply("MessageSenderError", NoOne))
    ELSE IF ~to_string_ok(actorCur.message)
    THEN actor_return(Reply("MessageSenderError", NoOne))
    ELSE IF actorMap[actorCur.participant] \in gone
    THEN actor_continue(remove(actorMap, actorCur.participant),
                        Reply("ParticipantDisconnected", actorCur.participant))
    ELSE actor_continue(actorMap, Reply("Ok", NoOne))

\* the body of the while loop for the received command
actor_process ==
    /\ actorState = "Processing"
    /\ IF actorCur.kind = "RegisterParticipant"
       THEN actor_continue(insert(actorMap, actorCur.participant,
                                  actorCur.ws_sender), Reply("Ok", NoOne))
       ELSE IF actorCur.kind = "UnregisterParticipant"
       THEN actor_continue(remove(actorMap, actorCur.participant),
                           Reply("Ok", NoOne))
       ELSE actor_send
    /\ UNCHANGED <<repoVars, nextConn, proxyAlive, pc, localVars>>
    /\ ret' = NoResult

\* --------------------------------------------------------- environment
\* the peer of a websocket goes away
peer_gone(h) ==
    /\ h \in sinks(actorMap)
    /\ h \notin gone
    /\ gone' = gone \cup {h}
    /\ UNCHANGED <<repoVars, actorVars, nextConn, proxyAlive, pc, localVars>>
    /\ ret' = NoResult

\* the server is torn down: the Router and every AppState clone are dropped
shutdown ==
    /\ proxyAlive
    /\ \A c \in Callers : pc[c] = "idle"
    /\ proxyAlive' = FALSE
    /\ UNCHANGED <<repoVars, actorVars, connVars, pc, localVars>>
    /\ ret' = NoResult

\* ---------------------------------------------------------------- api.rs
\* where handle_socket stands after a proxy call it made has been enqueued,
\* or has failed at once and tripped the expect
after_enqueue(c, state) ==
    IF pc'[c] = "proxy_wait" THEN state ELSE "panicked"

\* where handle_socket stands once the proxy call returned its result
after_result(c, state) ==
    IF proxy_result(reply[c]) = Ok THEN state ELSE "panicked"

\* handle_socket up to the await of register
handle_socket(c, rid, participant) ==
    /\ sock[c].state = "none"
    /\ register(c, participant)
    /\ sock' = [sock EXCEPT ![c] = Sock(after_enqueue(c, "register"), rid,
                                        participant, nextConn + 1, "-")]

\* register returned; the loop awaits receiver.next()
hs_registered(c) ==
    /\ sock[c].state = "register"
    /\ proxy_recv(c)
    /\ sock' = [sock EXCEPT ![c].state = after_result(c, "loop")]

\* receiver.next() yields an error: unregister, then return
hs_error(c) ==
    /\ sock[c].state = "loop"
    /\ unregister(c, sock[c].participant)
    /\ sock' = [sock EXCEPT ![c].state = after_enqueue(c, "unregister"),
                            ![c].frame = "Err"]

\* a Text frame that does not deserialize without the unregister before
\* the return
hs_text_bad_return(c) ==
    /\ sock[c].state = "loop"
    /\ CanCall(c)
    /\ sock' = [sock EXCEPT ![c].state = "ended", ![c].frame = "BadText"]
    /\ ret' = NoResult
    /\ UNCHANGED <<repoVars, actorVars, connVars, proxyAlive, pc, localVars>>

\* a Text frame that does not deserialize: unregister, then return
hs_text_bad(c) ==
    /\ sock[c].state = "loop"
    /\ unregister(c, sock[c].participant)
    /\ sock' = [sock EXCEPT ![c].state = after_enqueue(c, "unregister"),
                            ![c].frame = "BadText"]

\* a Text frame that deserializes: app::handle_message, its error only logged
hs_text(c, d) ==
    /\ sock[c].state = "loop"
    /\ handle_message(c, sock[c].room_id, sock[c].participant, d)
    /\ UNCHANGED sock

\* a Close frame: app::leave_room, its result discarded
hs_close(c) ==
    /\ sock[c].state = "loop"
    /\ leave_room(c, sock[c].room_id, sock[c].participant)
    /\ sock' = [sock EXCEPT ![c].state = "close", ![c].frame = "Close"]

\* a Close frame, after leave_room: unregister, then return
hs_close_unregister(c) ==
    /\ sock[c].state = "close"
    /\ unregister(c, sock[c].participant)
    /\ sock' = [sock EXCEPT ![c].state = after_enqueue(c, "unregister")]

\* any other frame: a warning, and the loop goes round
hs_other(c) ==
    /\ sock[c].state = "loop"
    /\ CanCall(c)
    /\ ret' = NoResult
    /\ UNCHANGED <<repoVars, actorVars, connVars, proxyAlive, pc, localVars,
                   sock>>

\* receiver.next() yields None: the loop is left and handle_socket returns
hs_end(c) ==
    /\ sock[c].state = "loop"
    /\ CanCall(c)
    /\ sock' = [sock EXCEPT ![c].state = "ended", ![c].frame = "End"]
    /\ ret' = NoResult
    /\ UNCHANGED <<repoVars, actorVars, connVars, proxyAlive, pc, localVars>>

\* the unregister before a return has returned: handle_socket returns
hs_unregistered(c) ==
    /\ sock[c].state = "unregister"
    /\ proxy_recv(c)
    /\ sock' = [sock EXCEPT ![c].state = after_result(c, "ended")]

\* ------------------------------------------- domain.rs, the Room methods
\* Room::join on the Room value a caller holds
room_join(c, participant) ==
    /\ pc[c] = "idle"
    /\ IF is_full(room[c])
       THEN ret' = Res("RoomFull", NoOne) /\ UNCHANGED room
       ELSE ret' = Ok /\ room' = [room EXCEPT ![c] = join(room[c], participant)]
    /\ UNCHANGED <<repoVars, actorVars, connVars, proxyAlive, pc, room_id,
                   responses, idx, attempts, sock>>

\* Room::leave on the Room value a caller holds
room_leave(c, participant) ==
    /\ pc[c] = "idle"
    /\ ret' = Res("Left", participant)
    /\ room' = [room EXCEPT ![c] = leave(room[c], participant)]
    /\ UNCHANGED <<repoVars, actorVars, connVars, proxyAlive, pc, room_id,
                   responses, idx, attempts, sock>>

\* the memberships join_room can build in a room of the given capacity:
\* every sequence of participants no longer than the capacity
RECURSIVE Memberships(_)
Memberships(n) ==
    IF n = 0 THEN {<<>>}
    ELSE Memberships(n - 1) \cup
         {Append(s, p) : s \in {t \in Memberships(n - 1) : Len(t) = n - 1},
                         p \in Participants}

\* a room opened by open_room("x", MaxCapacity, "A") and joined since
InitMsg ==
    /\ nextRoom = 1
    /\ Init!3 /\ Init!4 /\ Init!5 /\ Init!6 /\ Init!7 /\ Init!8
    /\ Init!9 /\ Init!10 /\ Init!11 /\ Init!12 /\ Init!13 /\ Init!14
    /\ Init!15 /\ Init!16 /\ Init!17 /\ Init!18
    /\ \E ps \in Memberships(MaxCapacity) :
            repoMap = insert(EmptyMap, 1,
                [Room(1, "x", MaxCapacity, "A") EXCEPT !.participants = ps])

\* the room lifecycle: concurrent callers of the app.rs orchestrations
NextRoom ==
    \/ \E c \in Callers, n \in Names, k \in 0..MaxCapacity, p \in Participants :
            open_room(c, n, k, p) /\ UNCHANGED sock
    \/ \E c \in Callers, r \in RoomIds, p \in Participants :
            close_room(c, r, p) /\ UNCHANGED sock
    \/ \E c \in Callers : close_room_delete(c) /\ UNCHANGED sock
    \/ \E c \in Callers, r \in RoomIds, p \in Participants :
            join_room(c, r, p) /\ UNCHANGED sock
    \/ \E c \in Callers : join_room_save(c) /\ UNCHANGED sock
    \/ \E c \in Callers, r \in RoomIds, p \in Participants :
            leave_room(c, r, p) /\ UNCHANGED sock

SpecRoom == Init /\ [][NextRoom]_vars

\* message dispatch and the connection registry: one connection task
\* dispatches its inbound messages while another task registers and
\* unregisters connections
NextMsg ==
    \/ \E c \in Dispatchers, r \in RoomIds, p \in Participants, d \in Decisions :
            handle_message(c, r, p, d) /\ UNCHANGED sock
    \/ \E c \in Callers : hm_send(c) /\ UNCHANGED sock
    \/ \E c \in Callers : hm_recv(c) /\ UNCHANGED sock
    \/ \E c \in Callers : hm_leave(c) /\ UNCHANGED sock
    \/ \E c \in Connectors, p \in Participants :
            register(c, p) /\ UNCHANGED sock
    \/ \E c \in Connectors, p \in Participants :
            unregister(c, p) /\ UNCHANGED sock
    \/ \E c \in Callers : proxy_recv(c) /\ UNCHANGED sock
    \/ actor_recv /\ UNCHANGED sock
    \/ actor_closed /\ UNCHANGED sock
    \/ actor_process /\ UNCHANGED sock
    \/ \E h \in Handles : peer_gone(h) /\ UNCHANGED sock
    \/ shutdown /\ UNCHANGED sock

SpecMsg == InitMsg /\ [][NextMsg]_vars

\* message dispatch while the owner may close the room
NextDispatch ==
    \/ NextMsg
    \/ \E c \in Connectors, r \in RoomIds, p \in Participants :
            close_room(c, r, p) /\ UNCHANGED sock
    \/ \E c \in Connectors : close_room_delete(c) /\ UNCHANGED sock

SpecDispatch == InitMsg /\ [][NextDispatch]_vars

\* message dispatch by both tasks at once: the second task dispatches too,
\* and a task that finds the queue full is seen suspended in its enqueue
NextBurst ==
    \/ NextMsg
    \/ \E c \in Callers : hm_full(c) /\ UNCHANGED sock
    \/ \E c \in Callers : hm_resume(c) /\ UNCHANGED sock
    \/ \E c \in Connectors, r \in RoomIds, p \in Participants, d \in Decisions :
            handle_message(c, r, p, d) /\ UNCHANGED sock

SpecBurst == InitMsg /\ [][NextBurst]_vars

\* every caller holds a Room fresh from Room::new
InitEntity ==
    /\ Init!1 /\ Init!2 /\ Init!3 /\ Init!4 /\ Init!5 /\ Init!6 /\ Init!7
    /\ Init!8 /\ Init!9 /\ Init!10 /\ Init!11 /\ Init!13 /\ Init!14
    /\ Init!15 /\ Init!16 /\ Init!17 /\ Init!18
    /\ room \in [Callers -> {Room(1, "x", k, "A") : k \in 0..MaxCapacity}]

\* the Room entity by itself: joins and leaves applied to a Room value
NextEntity ==
    \/ \E c \in Callers, p \in Participants : room_join(c, p)
    \/ \E c \in Callers, p \in Participants : room_leave(c, p)

SpecEntity == InitEntity /\ [][NextEntity]_vars

\* the connection registry by itself: proxies and the actor
NextActor ==
    \/ \E c \in Callers, p \in Participants : register(c, p) /\ UNCHANGED sock
    \/ \E c \in Callers, p \in Participants : unregister(c, p) /\ UNCHANGED sock
    \/ \E c \in Callers, p \in Participants, m \in Payloads :
            send(c, p, m) /\ UNCHANGED sock
    \/ \E c \in Callers : proxy_recv(c) /\ UNCHANGED sock
    \/ actor_recv /\ UNCHANGED sock
    \/ actor_closed /\ UNCHANGED sock
    \/ actor_process /\ UNCHANGED sock
    \/ \E h \in Handles : peer_gone(h) /\ UNCHANGED sock
    \/ shutdown /\ UNCHANGED sock

SpecActor == Init /\ [][NextActor]_vars

\* the connections: every task runs handle_socket for a participant; the
\* frames that deserialize arrive on the connection of one task
NextSock ==
    \/ \E c \in Callers, r \in RoomIds \cup DOMAIN repoMap,
          p \in Participants :
            handle_socket(c, r, p)
    \/ \E c \in Callers : hs_registered(c)
    \/ \E c \in Callers : hs_error(c)
    \/ \E c \in Callers : hs_text_bad(c)
    \/ \E c \in Dispatchers, d \in Decisions : hs_text(c, d)
    \/ \E c \in Callers : hs_close(c)
    \/ \E c \in Callers : hs_close_unregister(c)
    \/ \E c \in Callers : hs_other(c)
    \/ \E c \in Callers : hs_end(c)
    \/ \E c \in Callers : hs_unregistered(c)
    \/ \E c \in Callers : hm_send(c) /\ UNCHANGED sock
    \/ \E c \in Callers : hm_recv(c) /\ UNCHANGED sock
    \/ \E c \in Callers : hm_leave(c) /\ UNCHANGED sock
    \/ actor_recv /\ UNCHANGED sock
    \/ actor_process /\ UNCHANGED sock
    \/ \E h \in Handles : peer_gone(h) /\ UNCHANGED sock

SpecSock == InitMsg /\ [][NextSock]_vars

\* two rooms opened by open_room("x", MaxCapacity, "A"), A having joined both
InitCross ==
    /\ nextRoom = 2
    /\ Init!3 /\ Init!4 /\ Init!5 /\ Init!6 /\ Init!7 /\ Init!8
    /\ Init!9 /\ Init!10 /\ Init!11 /\ Init!12 /\ Init!13 /\ Init!14
    /\ Init!15 /\ Init!16 /\ Init!17 /\ Init!18
    /\ repoMap = [r \in {1, 2} |->
            [Room(r, "x", MaxCapacity, "A") EXCEPT !.participants = <<"A">>]]

\* the connections of a participant who is a member of two rooms
SpecCross == InitCross /\ [][NextSock]_vars

\* ------------------------------------------------------------ properties
members(r) == {r.participants[i] : i \in 1..Len(r.participants)}

\* C1: every stored room has at most capacity participants after every step
\* of any interleaving of the room operations, and a join_room that finds the
\* stored room at capacity returns RoomFull and leaves the repository as it is.
C1_CapacityInvariant ==
    /\ [](\A r \in DOMAIN repoMap :
            Len(repoMap[r].participants) <= repoMap[r].capacity)
    /\ [][\A c \in Callers, r \in DOMAIN repoMap, p \in Participants :
            (Len(repoMap[r].participants) >= repoMap[r].capacity
             /\ join_room(c, r, p))
            => (ret' = Res("RoomFull", NoOne) /\ repoMap' = repoMap
                /\ pc'[c] = "idle")]_vars

C1_Witness ==
    /\ ret = Res("RoomFull", NoOne)
    /\ \E r \in DOMAIN repoMap :
        /\ repoMap[r].capacity = MaxCapacity
        /\ Len(repoMap[r].participants) = MaxCapacity

\* C2: when the leave_room that handle_message runs for a recipient reported
\* ParticipantDisconnected has returned, that recipient is no member of the
\* room as stored in the repository.
C2_DisconnectSelfHeals ==
    [][\A c \in Callers :
        (pc[c] = "hm_leave" /\ pc'[c] # "hm_leave"
         /\ room_id[c] \in DOMAIN repoMap')
        => reply[c].participant \notin members(repoMap'[room_id[c]])]_vars

\* C3: the actor loop has stopped only if every proxy handle is dropped.
C3_StopsOnlyWhenClosed == actorState = "Stopped" => ~proxyAlive

\* C4: no request a proxy enqueued loses its reply channel unanswered while
\* its caller waits for the reply.
C4_AnsweredExactlyOnce ==
    \A c \in Callers : pc[c] \in {"proxy_wait", "hm_wait"} => reply[c] # Dropped

\* C5: close_room by a requester other than the owner returns NotOwner and
\* leaves the repository unchanged; on an absent room it returns RoomNotFound;
\* by the owner it goes on to delete, after which the room is absent.
C5_CloseRoom ==
    [][/\ \A c \in Callers, r \in RoomIds, p \in Participants :
            close_room(c, r, p) =>
                /\ r \notin DOMAIN repoMap =>
                        ret' = Res("RoomNotFound", NoOne) /\ repoMap' = repoMap
                /\ (r \in DOMAIN repoMap /\ repoMap[r].created_by # p) =>
                        ret' = Res("NotOwner", p) /\ repoMap' = repoMap
                /\ (r \in DOMAIN repoMap /\ repoMap[r].created_by = p) =>
                        pc'[c] = "close_delete" /\ room_id'[c] = r
       /\ \A c \in Callers :
            close_room_delete(c) =>
                ret' = Ok /\ room_id[c] \notin DOMAIN repoMap'
                /\ \A r \in DOMAIN repoMap \ {room_id[c]} :
                        r \in DOMAIN repoMap' /\ repoMap'[r] = repoMap[r]]_vars

C5_Witness ==
    /\ ret.tag = "NotOwner"
    /\ \E r \in DOMAIN repoMap : repoMap[r].created_by # ret.participant

\* C6: handle_message from a sender who is no member of the stored room, or
\* with a Unicast decision whose target is no member, returns NotParticipant
\* naming that participant, and enqueues nothing for the actor.
C6_MembershipGating ==
    [][\A c \in Callers, r \in DOMAIN repoMap, p \in Participants,
          d \in Decisions :
        (pc[c] = "idle" /\ handle_message(c, r, p, d)) =>
            /\ p \notin members(repoMap[r]) =>
                /\ ret' = Res("NotParticipant", p)
                /\ queue' = queue /\ attempts'[c] = <<>> /\ pc'[c] = "idle"
            /\ (p \in members(repoMap[r]) /\ d.kind = "Unicast"
                /\ d.to \notin members(repoMap[r])) =>
                /\ ret' = Res("NotParticipant", d.to)
                /\ queue' = queue /\ attempts'[c] = <<>> /\ pc'[c] = "idle"]_vars

C6_Witness ==
    /\ ret.tag = "NotParticipant"
    /\ ret.participant \in DOMAIN actorMap
    /\ \E r \in DOMAIN repoMap :
        /\ repoMap[r].participants # <<>>
        /\ ret.participant \notin members(repoMap[r])

\* C7: a handle_message call returns only after one delivery attempt for each
\* of the deliveries of its decision, in order: |M| for a Broadcast in
\* membership M, one for a Unicast.
C7_FanOut ==
    [][\A c \in Callers :
        (pc[c] \in {"hm_send", "hm_wait", "hm_leave"} /\ pc'[c] = "idle")
        => (IF pc[c] = "hm_send"
            THEN Append(attempts[c], responses[c][idx[c]])
            ELSE attempts[c]) = responses[c]]_vars

\* C8: when the write of a send fails, the actor removes the mapping of that
\* participant and no other, and replies ParticipantDisconnected naming it;
\* a send that finds no handle or cannot serialize is answered otherwise.
C8_DisconnectRemovesMapping ==
    [][(actorState = "Processing" /\ actorState' # "Processing"
        /\ actorCur.kind = "SendMessage") =>
        LET p == actorCur.participant
            c == actorCur.result_sender
            writes == p \in DOMAIN actorMap /\ actorCur.message # "bad"
        IN  /\ (writes /\ actorMap[p] \in gone) =>
                /\ DOMAIN actorMap' = DOMAIN actorMap \ {p}
                /\ \A q \in DOMAIN actorMap' : actorMap'[q] = actorMap[q]
                /\ reply'[c] = Reply("ParticipantDisconnected", p)
            /\ ~writes => reply'[c].tag \notin {"ParticipantDisconnected", "Ok"}
            /\ (writes /\ actorMap[p] \notin gone) =>
                reply'[c].tag = "Ok" /\ actorMap' = actorMap]_vars

C8_Witness ==
    \E c \in Callers, p \in Participants, q \in Participants :
        /\ reply[c] = Reply("ParticipantDisconnected", p)
        /\ p \notin DOMAIN actorMap
        /\ q \in DOMAIN actorMap

\* C9: a send to a participant without a handle, or of a payload that does
\* not serialize, is answered with a failure, leaves the connection map
\* unchanged and leaves the actor serving.
C9_FailedSendKeepsServing ==
    [][(actorState = "Processing" /\ actorState' # "Processing"
        /\ actorCur.kind = "SendMessage"
        /\ (actorCur.participant \notin DOMAIN actorMap
            \/ actorCur.message = "bad")) =>
        /\ reply'[actorCur.result_sender].tag = "MessageSenderError"
        /\ actorMap' = actorMap
        /\ actorState' = "Idle"]_vars

\* the map after a step is the map before it with the request in progress
\* applied to its participant, every other participant's mapping untouched
C10_SequentialEffect ==
    /\ actorState = "Processing"
    /\ \A q \in Participants \ {actorCur.participant} :
        /\ q \in DOMAIN actorMap' <=> q \in DOMAIN actorMap
        /\ q \in DOMAIN actorMap => actorMap'[q] = actorMap[q]
    /\ actorCur.kind = "RegisterParticipant" =>
        /\ actorCur.participant \in DOMAIN actorMap'
        /\ actorMap'[actorCur.participant] = actorCur.ws_sender
    /\ actorCur.kind \in {"UnregisterParticipant", "SendMessage"} =>
        actorCur.participant \notin DOMAIN actorMap'

\* C10: the actor takes a request only when it has none in progress, and the
\* connection map changes only in the step that completes the one request in
\* progress, by that request's sequential effect on its own participant.
C10_Linearized ==
    /\ [](actorState = "Processing" <=> actorCur # NoCommand)
    /\ [][(actorCur' # actorCur /\ actorCur' # NoCommand) =>
            (actorState = "Idle" /\ actorCur = NoCommand /\ queue # <<>>
             /\ actorCur' = Head(queue) /\ queue' = Tail(queue)
             /\ actorMap' = actorMap)]_vars
    /\ [][actorMap' # actorMap =>
            (IF actorState' = "Stopped"
             THEN actorState # "Stopped" /\ actorMap' = EmptyMap
             ELSE C10_SequentialEffect)]_vars

C10_Witness ==
    /\ actorState = "Processing"
    /\ actorCur.kind = "SendMessage"
    /\ actorCur.participant \in DOMAIN actorMap
    /\ queue # <<>>
    /\ Head(queue).participant = actorCur.participant
    /\ Head(queue).kind = "UnregisterParticipant"

IsPrefix(s, t) == Len(s) <= Len(t) /\ \A i \in 1..Len(s) : s[i] = t[i]

\* C11: when a send of a batch reports ParticipantDisconnected, handle_message
\* runs leave_room for that recipient and then goes on to the next delivery of
\* the batch, or returns after the last one, whatever the repository holds.
C11_DisconnectNeverAborts ==
    [][\A c \in Callers :
        /\ (pc[c] = "hm_wait" /\ pc'[c] # "hm_wait"
            /\ reply[c].tag = "ParticipantDisconnected") => pc'[c] = "hm_leave"
        /\ (pc[c] = "hm_leave" /\ pc'[c] # "hm_leave") =>
            IF idx[c] < Len(responses[c])
            THEN pc'[c] = "hm_send" /\ idx'[c] = idx[c] + 1
            ELSE pc'[c] = "idle"]_vars

\* C12: the deliveries attempted by a handle_message call are a prefix of its
\* batch, in order, and a send that reports a failure of either kind is never
\* the last attempt of the call unless it is the last delivery of the batch.
C12_IndependentDeliveries ==
    /\ [](\A c \in Callers : IsPrefix(attempts[c], responses[c]))
    /\ [][\A c \in Callers :
            (pc[c] \in {"hm_wait", "hm_leave"} /\ pc'[c] = "idle"
             /\ reply[c].tag \in {"ParticipantDisconnected", "MessageSenderError"})
            => idx[c] = Len(responses[c])]_vars

\* C13: a leave_room that returns Ok leaves the participant absent from the
\* stored room; for a participant who is no member it returns Ok and leaves
\* the stored room unchanged; on an absent room it returns RoomNotFound.
C13_LeaveRoom ==
    [][\A c \in Callers, r \in RoomIds, p \in Participants :
        leave_room(c, r, p) =>
            /\ r \notin DOMAIN repoMap =>
                    ret' = Res("RoomNotFound", NoOne) /\ repoMap' = repoMap
            /\ r \in DOMAIN repoMap =>
                    /\ ret' = Ok
                    /\ r \in DOMAIN repoMap'
                    /\ p \notin members(repoMap'[r])
                    /\ p \notin members(repoMap[r]) => repoMap' = repoMap]_vars

\* this connection's sink is not the one registered for its participant
unregistered(c, m) ==
    ~(sock[c].participant \in DOMAIN m /\ m[sock[c].participant] = sock[c].sender)

\* C14: when handle_socket returns, for whichever reason its loop ended, the
\* sink of the connection is no longer registered and the participant is no
\* member of the stored room.
C14_ConnectionEndCleansUp ==
    [][\A c \in Callers :
        (sock[c].state # "ended" /\ sock'[c].state = "ended") =>
            /\ unregistered(c, actorMap')
            /\ sock[c].room_id \in DOMAIN repoMap' =>
                sock[c].participant \notin members(repoMap'[sock[c].room_id])]_vars

\* C15: no participant occurs twice in the participants of a stored room.
C15_NoDuplicateMembers ==
    \A r \in DOMAIN repoMap :
        \A i, j \in 1..Len(repoMap[r].participants) :
            repoMap[r].participants[i] = repoMap[r].participants[j] => i = j

\* C16: Room::join returns Ok and appends the participant exactly when the room
\* holds fewer participants than its capacity, and RoomFull without a change
\* otherwise; Room::leave of a member leaves the room short of its capacity,
\* so that the next join succeeds.
C16_SlotReuse ==
    [][\A c \in Callers :
        /\ \A p \in Participants : room_join(c, p) =>
            IF Len(room[c].participants) < room[c].capacity
            THEN /\ ret' = Ok
                 /\ room'[c].participants = Append(room[c].participants, p)
            ELSE ret' = Res("RoomFull", NoOne) /\ room'[c] = room[c]
        /\ \A p \in Participants : room_leave(c, p) =>
            /\ p \notin members(room'[c])
            /\ room'[c].capacity = room[c].capacity
            /\ p \in members(room[c]) =>
                /\ Len(room'[c].participants) < room'[c].capacity
                /\ ~is_full(room'[c])]_vars

C16_Witness ==
    \E c \in Callers :
        /\ ret.tag = "Left"
        /\ room[c].capacity = MaxCapacity
        /\ Len(room[c].participants) = MaxCapacity - 1
        /\ ret.participant \notin members(room[c])

saves(c) ==
    /\ pc[c] = "join_save" /\ pc'[c] = "idle"
    /\ DOMAIN repoMap' = DOMAIN repoMap \cup {room[c].id}
    /\ repoMap'[room[c].id] = room[c]
    /\ \A r \in DOMAIN repoMap \ {room[c].id} : repoMap'[r] = repoMap[r]

\* caller c completes a delete
deletes(c) ==
    /\ pc[c] = "close_delete" /\ pc'[c] = "idle"
    /\ DOMAIN repoMap' = DOMAIN repoMap \ {room_id[c]}
    /\ \A r \in DOMAIN repoMap' : repoMap'[r] = repoMap[r]

\* caller c completes the save of open_room, of a room under a fresh id
opens(c) ==
    /\ pc[c] = "idle" /\ pc'[c] = "idle" /\ nextRoom' = nextRoom + 1
    /\ DOMAIN repoMap' = DOMAIN repoMap \cup {nextRoom'}
    /\ repoMap'[nextRoom'].id = nextRoom'
    /\ \A r \in DOMAIN repoMap : repoMap'[r] = repoMap[r]

\* C18: the repository changes only by one whole save or one whole delete of
\* one caller at a time: a save leaves its argument stored whole under its id
\* and a delete leaves the id absent, no other id being touched, so that the
\* stored value of an id is that of the latest save not followed by a delete;
\* and a get loads the stored value whole.
C18_RegistryAtomic ==
    [][/\ repoMap' # repoMap =>
            \E c \in Callers : saves(c) \/ deletes(c) \/ opens(c)
       /\ \A c \in Callers :
            /\ (pc[c] = "join_save" /\ pc'[c] # "join_save") =>
                    room[c].id \in DOMAIN repoMap' /\ repoMap'[room[c].id] = room[c]
            /\ (pc[c] = "close_delete" /\ pc'[c] # "close_delete") =>
                    room_id[c] \notin DOMAIN repoMap'
            /\ (pc[c] = "idle" /\ pc'[c] = "join_save") =>
                    /\ room_id'[c] \in DOMAIN repoMap
                    /\ room'[c].id = room_id'[c]
                    /\ room'[c].participants # <<>>
                    /\ [room'[c] EXCEPT !.participants =
                            SubSeq(@, 1, Len(@) - 1)] = repoMap[room_id'[c]]]_vars

C18_Witness ==
    \E c \in Callers :
        /\ pc[c] = "join_save"
        /\ room[c].id \in DOMAIN repoMap
        /\ Len(room[c].participants) = 1
        /\ repoMap[room[c].id].participants # <<>>
        /\ repoMap[room[c].id].participants # room[c].participants

\* C19: when a send of a batch fails otherwise than by ParticipantDisconnected,
\* by the actor's MessageSenderError reply or because the request cannot be
\* enqueued, handle_message returns MessageSenderError at once: nothing further
\* is enqueued and the repository is left as it is.
C19_OtherFailureAborts ==
    [][\A c \in Callers :
        ((pc[c] = "hm_wait" /\ pc'[c] # "hm_wait"
          /\ reply[c].tag = "MessageSenderError")
         \/ (pc[c] \in {"hm_send", "hm_full"} /\ pc'[c] # pc[c]
             /\ actorState = "Stopped"))
        => /\ pc'[c] = "idle"
           /\ ret' = Res("MessageSenderError", NoOne)
           /\ queue' = queue
           /\ repoMap' = repoMap]_vars

C19_Witness ==
    \E c \in Callers :
        /\ pc[c] = "hm_wait"
        /\ reply[c].tag = "MessageSenderError"
        /\ idx[c] < Len(responses[c])
        /\ attempts[c] = SubSeq(responses[c], 1, idx[c])

\* C20: a Text frame that does not deserialize makes handle_socket unregister
\* its participant and return; no step of it changes the repository, so the
\* participant stays a member of the stored room.
C20_BadFrameUnregistersOnly ==
    [][\A c \in Callers :
        /\ (sock[c].state = "loop" /\ sock'[c].frame = "BadText") =>
            /\ repoMap' = repoMap
            /\ \/ /\ sock'[c].state = "unregister"
                  /\ queue' = Append(queue, Command("UnregisterParticipant",
                                        sock[c].participant, 0, "-", c))
               \/ /\ sock'[c].state = "panicked"
                  /\ actorState = "Stopped"
        /\ (sock[c].frame = "BadText" /\ sock[c].state = "unregister"
            /\ sock'[c].state # "unregister") =>
            /\ repoMap' = repoMap
            /\ sock'[c].state \in {"ended", "panicked"}
            /\ unregistered(c, actorMap')]_vars

C20_Witness ==
    \E c \in Callers :
        /\ sock[c].state = "ended"
        /\ sock[c].frame = "BadText"
        /\ sock[c].room_id \in DOMAIN repoMap
        /\ sock[c].participant \in members(repoMap[sock[c].room_id])
        /\ sock[c].participant \notin DOMAIN actorMap

\* C21: the queue never holds more than QueueSize requests, and a caller
\* suspended in its enqueue because the queue was full leaves the suspension
\* only by its request being appended to the queue: it neither fails nor
\* loses the request.
C21_BoundedQueueSuspends ==
    /\ [](Len(queue) <= QueueSize)
    /\ [][\A c \in Callers :
            (pc[c] = "hm_full" /\ pc'[c] # "hm_full") =>
                /\ pc'[c] = "hm_wait"
                /\ Len(queue) < QueueSize
                /\ queue' = Append(queue, Command("SendMessage",
                                responses[c][idx[c]].to, 0,
                                responses[c][idx[c]].msg, c))]_vars

\* C22: a register call never fails: it is enqueued, the actor answers it Ok
\* and leaves its participant mapped to the sink it supplied, replacing any
\* earlier one, every other mapping as it was; a later send to the participant
\* is written to the sink then mapped, and succeeds or fails with that sink.
C22_RegisterSucceeds ==
    [][/\ \A c \in Callers, p \in Participants :
            register(c, p) =>
                /\ pc'[c] = "proxy_wait"
                /\ queue' = Append(queue, Command("RegisterParticipant", p,
                                                  nextConn', "-", c))
       /\ (actorState = "Processing" /\ actorState' # "Processing"
           /\ actorCur.kind = "RegisterParticipant") =>
            /\ reply'[actorCur.result_sender] = Reply("Ok", NoOne)
            /\ actorState' = "Idle"
            /\ DOMAIN actorMap' = DOMAIN actorMap \cup {actorCur.participant}
            /\ actorMap'[actorCur.participant] = actorCur.ws_sender
            /\ \A q \in DOMAIN actorMap \ {actorCur.participant} :
                    actorMap'[q] = actorMap[q]
       /\ (actorState = "Processing" /\ actorState' # "Processing"
           /\ actorCur.kind = "SendMessage"
           /\ actorCur.participant \in DOMAIN actorMap
           /\ to_string_ok(actorCur.message)) =>
            (reply'[actorCur.result_sender].tag = "Ok"
                <=> actorMap[actorCur.participant] \notin gone)]_vars

\* C23: the save that completes a successful join_room adds one membership
\* to the stored room and drops none: every participant the stored room held,
\* each by a join_room that returned Ok, is still a member afterwards, so the
\* joins that succeeded never outnumber the capacity.
C23_NoLostJoin ==
    [][\A c \in Callers :
        (pc[c] = "join_save" /\ pc'[c] = "idle"
         /\ room[c].id \in DOMAIN repoMap) =>
            /\ ret' = Ok
            /\ members(repoMap[room[c].id]) \subseteq members(repoMap'[room[c].id])
            /\ Len(repoMap'[room[c].id].participants) =
                    Len(repoMap[room[c].id].participants) + 1]_vars

\* C24: a delivery of a handle_message for room R that the actor writes is
\* written to the sink of a connection that was opened for room R.
C24_RoomScopedDelivery ==
    [][(actorState = "Processing" /\ actorState' # "Processing"
        /\ actorCur.kind = "SendMessage"
        /\ reply'[actorCur.result_sender].tag = "Ok") =>
        \A c \in Callers :
            sock[c].sender = actorMap[actorCur.participant] =>
                sock[c].room_id = room_id[actorCur.result_sender]]_vars

\* C25: the unregister that an ending connection issues removes no sink but
\* the one that connection registered: the sink a later connection of the same
\* participant registered stays mapped, so a connection whose loop is running
\* does not lose its registration to another connection's end.
C25_UnregisterOwnHandle ==
    [][(actorState = "Processing" /\ actorState' # "Processing"
        /\ actorCur.kind = "UnregisterParticipant"
        /\ actorCur.participant \in DOMAIN actorMap
        /\ actorMap[actorCur.participant] # sock[actorCur.result_sender].sender) =>
        /\ actorCur.participant \in DOMAIN actorMap'
        /\ actorMap'[actorCur.participant] = actorMap[actorCur.participant]]_vars

====
